---------------------------- MODULE Spec2Model ----------------------------
(***************************************************************************)
(* Model of the OpenTelemetry output plugin                                *)
(* (plugins/outputs/opentelemetry/opentelemetry.go): the Connect, Close    *)
(* and Write methods of one OpenTelemetry instance, the gRPC channels it   *)
(* dials, and the external calls each method makes.                        *)
(***************************************************************************)
EXTENDS Integers, Sequences, FiniteSets, TLC

(***************************************************************************)
(* Bounds of the model.                                                    *)
(***************************************************************************)
\* longest metric slice the host assembles point by point
MaxPoints == 2
\* number of channels grpc.Dial may open in one behaviour
MaxDials == 2

(***************************************************************************)
(* Program constants.                                                      *)
(***************************************************************************)
\* Go's nil for the channel and client handles
Nil == 0
coralogixDialect == "coralogix"
defaultServiceAddress == "localhost:4317"
\* config.Duration(5 * time.Second), counted in seconds
defaultTimeout == 5
defaultCompression == "gzip"

\* the vendor sub-configuration (application_name, subsystem_name, private_key)
CoralogixConfig == [AppName |-> "app", SubSystem |-> "sub", PrivateKey |-> "K"]

(***************************************************************************)
(* Maps (map[string]string) are functions on a finite set of keys; a nil   *)
(* map and an empty map are both the function with the empty domain.       *)
(***************************************************************************)
EmptyMap == [k \in {} |-> ""]

Upsert(m, key, val) == [k \in (DOMAIN m) \cup {key} |-> IF k = key THEN val ELSE m[k]]

Range(s) == {s[i] : i \in DOMAIN s}

(***************************************************************************)
(* telegraf.Metric as Write sees it: its Type(), whether AddPoint accepts   *)
(* its name, tags, fields and time for the chosen value type, and the      *)
(* resource attributes its tags stand for (the points of one resource      *)
(* share one resource group of the payload).                               *)
(***************************************************************************)
RecognizedKinds == {"Gauge", "Untyped", "Counter", "Histogram", "Summary"}
\* a telegraf.ValueType outside the five enumerated kinds
UnknownKind == "Invalid"

Points == [kind : RecognizedKinds, addable : BOOLEAN, resource : {EmptyMap}]
            \cup {[kind |-> UnknownKind, addable |-> TRUE, resource |-> EmptyMap]}

\* the recognized kinds in the order telegraf.ValueType enumerates them
KindOrder == <<"Counter", "Gauge", "Untyped", "Summary", "Histogram">>

\* slices holding exactly one AddPoint-compatible point of each recognized
\* kind: the enumeration order and its rotations
OneOfEachKind ==
  {[i \in 1..5 |-> [kind |-> KindOrder[((i + r) % 5) + 1], addable |-> TRUE,
                     resource |-> EmptyMap]] : r \in 0..4}

\* resource attributes that tags of a metric give its resource group
Resources == {[env |-> "dev"], [host |-> "a"]}

\* slices of two convertible points that carry resource attributes
TaggedSlices == [1..2 -> [kind : {"Gauge"}, addable : {TRUE}, resource : Resources]]

VARIABLES
  \* configuration fields of the OpenTelemetry struct
  ServiceAddress, Timeout, Compression, Headers, Attributes, Dialect,
  \* connection fields of the OpenTelemetry struct
  metricsConverter, grpcClientConn, metricsServiceClient, callOptions,
  \* the channels grpc.Dial has handed out, by handle: "open" or "closed"
  channels,
  \* the metric slice the host passes to Write
  metrics,
  \* the most recent method call: its name, its return value and the
  \* external calls it made, in order
  lastOp, lastErr, extCalls,
  \* the timeout contexts the most recent call created, each with its
  \* timeout and whether its cancel function has run
  contexts

config == <<ServiceAddress, Timeout, Compression, Headers, Attributes, Dialect>>
conn == <<metricsConverter, grpcClientConn, metricsServiceClient, callOptions>>
vars == <<ServiceAddress, Timeout, Compression, Headers, Attributes, Dialect,
          metricsConverter, grpcClientConn, metricsServiceClient, callOptions,
          channels, metrics, lastOp, lastErr, extCalls, contexts>>

(***************************************************************************)
(* Configurations the instance is constructed with.                        *)
(***************************************************************************)
InitHeaders == {EmptyMap,
                [k \in {"Authorization", "X-Scope"} |-> IF k = "Authorization" THEN "Basic old" ELSE "tenant"]}

\* the instance as its factory leaves it, before any call
InitInstance ==
  /\ metricsConverter = "nil"
  /\ grpcClientConn = Nil
  /\ metricsServiceClient = Nil
  /\ callOptions = <<>>
  /\ channels = <<>>
  /\ metrics = <<>>
  /\ lastOp = "None"
  /\ lastErr = "nil"
  /\ extCalls = <<>>
  /\ contexts = <<>>

\* endpoint, timeout and compression unset; the dialect and the headers vary
Init ==
  /\ ServiceAddress = ""
  /\ Timeout = 0
  /\ Compression = ""
  /\ Headers \in InitHeaders
  /\ Attributes = [k \in {"env"} |-> "prod"]
  /\ Dialect \in {coralogixDialect, ""}
  /\ InitInstance

\* endpoint, timeout (in seconds) and compression as configured: each of
\* them unset in one profile and set in another
DefaultsProfiles ==
  {<<"", 0, "">>, <<"", -1, "none">>, <<"collector:4317", 10, "none">>,
   <<"collector:4317", 0, "gzip">>}

InitDefaults ==
  /\ \E c \in DefaultsProfiles :
       /\ ServiceAddress = c[1]
       /\ Timeout = c[2]
       /\ Compression = c[3]
  /\ Headers = EmptyMap
  /\ Attributes = [k \in {"env"} |-> "prod"]
  /\ Dialect = ""
  /\ InitInstance

\* the static resource attributes vary
InitAttributes ==
  /\ ServiceAddress = ""
  /\ Timeout = 0
  /\ Compression = ""
  /\ Headers = EmptyMap
  /\ Attributes \in {EmptyMap, [k \in {"env"} |-> "prod"]}
  /\ Dialect = ""
  /\ InitInstance

(***************************************************************************)
(* Connect                                                                 *)
(***************************************************************************)
\* variant: a vendor header is set only when its key is not configured yet
SetIfAbsent(m, key, val) == IF key \in DOMAIN m THEN m ELSE Upsert(m, key, val)

CoralogixHeadersKeep(h) ==
  SetIfAbsent(SetIfAbsent(SetIfAbsent(h, "ApplicationName", CoralogixConfig.AppName),
                          "ApiName", CoralogixConfig.SubSystem),
              "Authorization", "Bearer " \o CoralogixConfig.PrivateKey)

\* the three vendor headers, written over whatever the mapping holds
CoralogixHeaders(h) ==
  Upsert(Upsert(Upsert(h, "ApplicationName", CoralogixConfig.AppName),
                "ApiName", CoralogixConfig.SubSystem),
         "Authorization", "Bearer " \o CoralogixConfig.PrivateKey)

\* variant: the dialect plays no part in the choice of the credential
TransportCredentialNoVendor(tlsRes, dialect) ==
  IF tlsRes = "config" THEN "TLS(config)" ELSE "insecure"

\* tlsRes is what ClientConfig.TLSConfig() returned without an error:
\* "config" for a non-nil *tls.Config, "none" for nil
TransportCredential(tlsRes, dialect) ==
  IF tlsRes = "config" THEN "TLS(config)"
  ELSE IF dialect = coralogixDialect THEN "TLS(default)"
  ELSE "insecure"

\* the three defaults of Connect
ServiceAddressOrDefault(a) == IF a = "" THEN defaultServiceAddress ELSE a

\* variant: only a negative timeout is replaced
TimeoutOrDefaultNegativeOnly(t) == IF t < 0 THEN defaultTimeout ELSE t

TimeoutOrDefault(t) == IF t <= 0 THEN defaultTimeout ELSE t

CompressionOrDefault(c) == IF c = "" THEN defaultCompression ELSE c

\* variant: the converter is stored in the instance as soon as it is built
ConnectEarlyStore(convErr, tlsRes, dialErr) ==
  LET addr == ServiceAddressOrDefault(ServiceAddress)
      tmo == TimeoutOrDefault(Timeout)
      comp == CompressionOrDefault(Compression)
      hdrs == IF Dialect = coralogixDialect THEN CoralogixHeaders(Headers) ELSE Headers
      convCall == [fn |-> "NewLineProtocolToOtelMetrics", arg |-> "logger",
                   err |-> IF convErr THEN "ErrConverter" ELSE "nil"]
      tlsCall == [fn |-> "TLSConfig", arg |-> tlsRes,
                  err |-> IF tlsRes = "error" THEN "ErrTLS" ELSE "nil"]
      cred == TransportCredential(tlsRes, Dialect)
      dialCall == [fn |-> "Dial", arg |-> [target |-> addr, cred |-> cred],
                   err |-> IF dialErr THEN "ErrDial" ELSE "nil"]
      handle == Len(channels) + 1
  IN /\ lastOp # "Gather"
     /\ ServiceAddress' = addr
     /\ Timeout' = tmo
     /\ Compression' = comp
     /\ Headers' = hdrs
     /\ UNCHANGED <<Attributes, Dialect>>
     /\ metrics' = <<>>
     /\ lastOp' = "Connect"
     /\ contexts' = <<>>
     /\ IF convErr
          THEN /\ lastErr' = convCall.err
               /\ extCalls' = <<convCall>>
               /\ UNCHANGED <<conn, channels>>
        ELSE IF tlsRes = "error"
          THEN /\ lastErr' = tlsCall.err
               /\ extCalls' = <<convCall, tlsCall>>
               /\ metricsConverter' = "converter"
               /\ UNCHANGED <<grpcClientConn, metricsServiceClient, callOptions, channels>>
        ELSE IF dialErr
          THEN /\ lastErr' = dialCall.err
               /\ extCalls' = <<convCall, tlsCall, dialCall>>
               /\ metricsConverter' = "converter"
               /\ UNCHANGED <<grpcClientConn, metricsServiceClient, callOptions, channels>>
        ELSE /\ Len(channels) < MaxDials
             /\ channels' = Append(channels, "open")
             /\ metricsConverter' = "converter"
             /\ grpcClientConn' = handle
             /\ metricsServiceClient' = handle
             /\ callOptions' = IF comp # "" /\ comp # "none"
                                 THEN Append(callOptions, comp)
                                 ELSE callOptions
             /\ lastErr' = "nil"
             /\ extCalls' = <<convCall, tlsCall, dialCall>>

\* convErr: NewLineProtocolToOtelMetrics fails; tlsRes: the outcome of
\* TLSConfig(), one of "error", "config", "none"; dialErr: grpc.Dial fails
Connect(convErr, tlsRes, dialErr) ==
  LET addr == ServiceAddressOrDefault(ServiceAddress)
      tmo == TimeoutOrDefault(Timeout)
      comp == CompressionOrDefault(Compression)
      hdrs == IF Dialect = coralogixDialect THEN CoralogixHeaders(Headers) ELSE Headers
      convCall == [fn |-> "NewLineProtocolToOtelMetrics", arg |-> "logger",
                   err |-> IF convErr THEN "ErrConverter" ELSE "nil"]
      tlsCall == [fn |-> "TLSConfig", arg |-> tlsRes,
                  err |-> IF tlsRes = "error" THEN "ErrTLS" ELSE "nil"]
      cred == TransportCredential(tlsRes, Dialect)
      dialCall == [fn |-> "Dial", arg |-> [target |-> addr, cred |-> cred],
                   err |-> IF dialErr THEN "ErrDial" ELSE "nil"]
      handle == Len(channels) + 1
  IN /\ lastOp # "Gather"
     /\ ServiceAddress' = addr
     /\ Timeout' = tmo
     /\ Compression' = comp
     /\ Headers' = hdrs
     /\ UNCHANGED <<Attributes, Dialect>>
     /\ metrics' = <<>>
     /\ lastOp' = "Connect"
     /\ contexts' = <<>>
     /\ IF convErr
          THEN /\ lastErr' = convCall.err
               /\ extCalls' = <<convCall>>
               /\ UNCHANGED <<conn, channels>>
        ELSE IF tlsRes = "error"
          THEN /\ lastErr' = tlsCall.err
               /\ extCalls' = <<convCall, tlsCall>>
               /\ UNCHANGED <<conn, channels>>
        ELSE IF dialErr
          THEN /\ lastErr' = dialCall.err
               /\ extCalls' = <<convCall, tlsCall, dialCall>>
               /\ UNCHANGED <<conn, channels>>
        ELSE /\ Len(channels) < MaxDials
             /\ channels' = Append(channels, "open")
             /\ metricsConverter' = "converter"
             /\ grpcClientConn' = handle
             /\ metricsServiceClient' = handle
             /\ callOptions' = IF comp # "" /\ comp # "none"
                                 THEN Append(callOptions, comp)
                                 ELSE callOptions
             /\ lastErr' = "nil"
             /\ extCalls' = <<convCall, tlsCall, dialCall>>

(***************************************************************************)
(* Close                                                                   *)
(***************************************************************************)
\* variant: a failed teardown returns before the handle is cleared
CloseKeepOnError(closeErr) ==
  /\ lastOp # "Gather"
  /\ lastOp' = "Close"
  /\ contexts' = <<>>
  /\ metrics' = <<>>
  /\ UNCHANGED <<config, metricsConverter, metricsServiceClient, callOptions>>
  /\ IF grpcClientConn # Nil
       THEN /\ channels' = [channels EXCEPT ![grpcClientConn] = "closed"]
            /\ extCalls' = <<[fn |-> "Close", arg |-> grpcClientConn, err |-> closeErr]>>
            /\ grpcClientConn' = IF closeErr # "nil" THEN grpcClientConn ELSE Nil
            /\ lastErr' = closeErr
       ELSE /\ lastErr' = "nil"
            /\ extCalls' = <<>>
            /\ UNCHANGED <<grpcClientConn, channels>>

\* variant: the teardown is attempted without looking at the handle
CloseNoGuard(closeErr) ==
  /\ lastOp # "Gather"
  /\ lastOp' = "Close"
  /\ contexts' = <<>>
  /\ metrics' = <<>>
  /\ UNCHANGED <<config, metricsConverter, metricsServiceClient, callOptions>>
  /\ channels' = [h \in DOMAIN channels |-> IF h = grpcClientConn THEN "closed" ELSE channels[h]]
  /\ extCalls' = <<[fn |-> "Close", arg |-> grpcClientConn, err |-> closeErr]>>
  /\ grpcClientConn' = Nil
  /\ lastErr' = closeErr

\* variant: the handle is dropped and the channel is left as it is
CloseHandleOnly(closeErr) ==
  /\ lastOp # "Gather"
  /\ lastOp' = "Close"
  /\ contexts' = <<>>
  /\ metrics' = <<>>
  /\ UNCHANGED <<config, metricsConverter, metricsServiceClient, callOptions, channels>>
  /\ grpcClientConn' = Nil
  /\ lastErr' = "nil"
  /\ extCalls' = <<>>

\* closeErr is what grpcClientConn.Close() returns
Close(closeErr) ==
  /\ lastOp # "Gather"
  /\ lastOp' = "Close"
  /\ contexts' = <<>>
  /\ metrics' = <<>>
  /\ UNCHANGED <<config, metricsConverter, metricsServiceClient, callOptions>>
  /\ IF grpcClientConn # Nil
       THEN /\ channels' = [channels EXCEPT ![grpcClientConn] = "closed"]
            /\ extCalls' = <<[fn |-> "Close", arg |-> grpcClientConn, err |-> closeErr]>>
            /\ grpcClientConn' = Nil
            /\ lastErr' = closeErr
       ELSE /\ lastErr' = "nil"
            /\ extCalls' = <<>>
            /\ UNCHANGED <<grpcClientConn, channels>>

(***************************************************************************)
(* Write                                                                   *)
(***************************************************************************)
NoType == "none"

\* variant: a counter is sent as a gauge
vTypeOfCounterAsGauge(kind) ==
  CASE kind = "Gauge" -> "InfluxMetricValueTypeGauge"
    [] kind = "Untyped" -> "InfluxMetricValueTypeUntyped"
    [] kind = "Counter" -> "InfluxMetricValueTypeGauge"
    [] kind = "Histogram" -> "InfluxMetricValueTypeHistogram"
    [] kind = "Summary" -> "InfluxMetricValueTypeSummary"
    [] OTHER -> "none"

\* the switch on metric.Type()
vTypeOf(kind) ==
  CASE kind = "Gauge" -> "InfluxMetricValueTypeGauge"
    [] kind = "Untyped" -> "InfluxMetricValueTypeUntyped"
    [] kind = "Counter" -> "InfluxMetricValueTypeSum"
    [] kind = "Histogram" -> "InfluxMetricValueTypeHistogram"
    [] kind = "Summary" -> "InfluxMetricValueTypeSummary"
    [] OTHER -> NoType

\* variant: the loop ends at the first point it cannot convert
RECURSIVE AddPointsBreak(_, _, _)
AddPointsBreak(ms, i, batch) ==
  IF i > Len(ms) THEN batch
  ELSE IF vTypeOf(ms[i].kind) = NoType THEN batch
  ELSE IF ~ms[i].addable THEN batch
  ELSE AddPointsBreak(ms, i + 1, Append(batch, [src |-> i, vType |-> vTypeOf(ms[i].kind),
                                               resource |-> ms[i].resource]))

\* variant: a new point is put in front of the points the batch holds
RECURSIVE AddPointsPrepend(_, _, _)
AddPointsPrepend(ms, i, batch) ==
  IF i > Len(ms) THEN batch
  ELSE IF vTypeOf(ms[i].kind) = NoType THEN AddPointsPrepend(ms, i + 1, batch)
  ELSE IF ~ms[i].addable THEN AddPointsPrepend(ms, i + 1, batch)
  ELSE AddPointsPrepend(ms, i + 1, <<[src |-> i, vType |-> vTypeOf(ms[i].kind),
                                      resource |-> ms[i].resource]>> \o batch)

\* the loop over the metrics: the points of ms from index i on are offered
\* to the batch, which keeps for each accepted point its position in ms
\* (standing for its name, tags, fields and time) and its value type
RECURSIVE AddPoints(_, _, _)
AddPoints(ms, i, batch) ==
  IF i > Len(ms) THEN batch
  ELSE IF vTypeOf(ms[i].kind) = NoType THEN AddPoints(ms, i + 1, batch)
  ELSE IF ~ms[i].addable THEN AddPoints(ms, i + 1, batch)
  ELSE AddPoints(ms, i + 1, Append(batch, [src |-> i, vType |-> vTypeOf(ms[i].kind),
                                               resource |-> ms[i].resource]))

\* the resource groups rms after the point pt has joined the group of its
\* resource, a new last group when no group has its resource attributes
AddToGroup(rms, pt) ==
  IF \E g \in DOMAIN rms : rms[g].resource = pt.resource
    THEN [g \in DOMAIN rms |->
            IF rms[g].resource = pt.resource
              THEN [rms[g] EXCEPT !.points = Append(@, [src |-> pt.src, vType |-> pt.vType])]
              ELSE rms[g]]
    ELSE Append(rms, [resource |-> pt.resource, attributes |-> pt.resource,
                      points |-> <<[src |-> pt.src, vType |-> pt.vType]>>])

RECURSIVE GroupPoints(_, _, _)
GroupPoints(batch, i, rms) ==
  IF i > Len(batch) THEN rms ELSE GroupPoints(batch, i + 1, AddToGroup(rms, batch[i]))

\* batch.GetMetrics(): the resource groups of the accumulated points, each
\* with the attributes of its resource
ResourceMetrics(batch) ==
  LET rms == GroupPoints(batch, 1, <<>>)
  IN [g \in DOMAIN rms |-> [attributes |-> rms[g].attributes, points |-> rms[g].points]]

RECURSIVE UpsertAll(_, _)
UpsertAll(attrs, kv) ==
  IF DOMAIN kv = {} THEN attrs
  ELSE LET k == CHOOSE x \in DOMAIN kv : TRUE
       IN UpsertAll(Upsert(attrs, k, kv[k]), [x \in (DOMAIN kv) \ {k} |-> kv[x]])

\* variant: an attribute the resource group holds already is kept
RECURSIVE InsertAbsent(_, _)
InsertAbsent(attrs, kv) ==
  IF DOMAIN kv = {} THEN attrs
  ELSE LET k == CHOOSE x \in DOMAIN kv : TRUE
       IN InsertAbsent(SetIfAbsent(attrs, k, kv[k]), [x \in (DOMAIN kv) \ {k} |-> kv[x]])

InjectAttributesKeepPrior(rms, attrs) ==
  IF Cardinality(DOMAIN attrs) > 0
    THEN [i \in DOMAIN rms |-> [rms[i] EXCEPT !.attributes = InsertAbsent(@, attrs)]]
    ELSE rms

\* the attribute loop over the resource groups
InjectAttributes(rms, attrs) ==
  IF Cardinality(DOMAIN attrs) > 0
    THEN [i \in DOMAIN rms |-> [rms[i] EXCEPT !.attributes = UpsertAll(@, attrs)]]
    ELSE rms

\* what Export returns on the channel the client is bound to: an RPC on a
\* channel that was closed fails at once with grpc's "client connection is
\* closing" error; on an open channel it succeeds, is rejected, or runs
\* into the deadline
ExportOutcomes(client) ==
  IF channels[client] = "open"
    THEN {"nil", "ErrUnavailable", "DeadlineExceeded"}
    ELSE {"ErrClientConnClosing"}

\* variant: the deadline of a call that timed out is carried into the next
ExportRequestSharedDeadline(rms) ==
  [payload |-> InjectAttributes(rms, Attributes),
   timeout |-> IF lastOp = "Write" /\ lastErr = "DeadlineExceeded" THEN 0 ELSE Timeout,
   md |-> IF Cardinality(DOMAIN Headers) > 0 THEN <<Headers>> ELSE <<>>,
   opts |-> callOptions]

\* variant: Export is called without the call options
ExportRequestNoOpts(rms) ==
  [payload |-> InjectAttributes(rms, Attributes),
   timeout |-> Timeout,
   md |-> IF Cardinality(DOMAIN Headers) > 0 THEN <<Headers>> ELSE <<>>,
   opts |-> <<>>]

\* variant: the headers are not attached to the context
ExportRequestNoMetadata(rms) ==
  [payload |-> InjectAttributes(rms, Attributes),
   timeout |-> Timeout,
   md |-> <<>>,
   opts |-> callOptions]

\* the export request of one Write call over the resource groups rms: the decorated payload, the
\* timeout of the call's context, the outgoing metadata attached to the
\* context (none, or one mapping) and the call options
ExportRequest(rms) ==
  [payload |-> InjectAttributes(rms, Attributes),
   timeout |-> Timeout,
   md |-> IF Cardinality(DOMAIN Headers) > 0 THEN <<Headers>> ELSE <<>>,
   opts |-> callOptions]

\* variant: the request is exported whether or not it holds a resource group
WriteCallsAlways(rms, exportErr) ==
  <<[fn |-> "Export", arg |-> ExportRequest(rms), err |-> exportErr]>>

\* the external calls of one Write call whose batch finalizes to the
\* resource groups rms, exportErr being what Export returns
WriteCalls(rms, exportErr) ==
  IF Len(rms) = 0 THEN <<>>
  ELSE <<[fn |-> "Export", arg |-> ExportRequest(rms), err |-> exportErr]>>

\* variant: an export error is replaced by an error of the plugin's own
WriteReturnWrapped(rms, exportErr) ==
  IF Len(rms) = 0 \/ exportErr = "nil"
    THEN "nil" ELSE "ErrWrite"

\* the value Write returns
WriteReturn(rms, exportErr) ==
  IF Len(rms) = 0 THEN "nil" ELSE exportErr

\* variant: cancel runs only after an export that succeeded
WriteContextsLeakOnError(rms, exportErr) ==
  IF Len(rms) = 0 THEN <<>>
  ELSE <<[timeout |-> Timeout, cancelled |-> (exportErr = "nil")]>>

\* the timeout contexts of one Write call as the call leaves them:
\* none on the early return, else the one of context.WithTimeout, whose
\* cancel is deferred
WriteContexts(rms, exportErr) ==
  IF Len(rms) = 0 THEN <<>>
  ELSE <<[timeout |-> Timeout, cancelled |-> TRUE]>>

\* variant: a failed export drops the channel handle
WriteResetOnError(exportErr) ==
  /\ metricsConverter # "nil"
  /\ exportErr \in ExportOutcomes(metricsServiceClient)
  /\ lastOp' = "Write"
  /\ LET rms == ResourceMetrics(AddPoints(metrics, 1, <<>>))
     IN /\ lastErr' = WriteReturn(rms, exportErr)
        /\ extCalls' = WriteCalls(rms, exportErr)
        /\ contexts' = WriteContexts(rms, exportErr)
        /\ grpcClientConn' = IF WriteReturn(rms, exportErr) # "nil" THEN Nil ELSE grpcClientConn
  /\ UNCHANGED <<config, metricsConverter, metricsServiceClient, callOptions, channels, metrics>>

\* Write starts with o.metricsConverter.NewBatch(): a call on an instance
\* that holds no converter does not return
Write(exportErr) ==
  /\ metricsConverter # "nil"
  /\ exportErr \in ExportOutcomes(metricsServiceClient)
  /\ lastOp' = "Write"
  /\ LET rms == ResourceMetrics(AddPoints(metrics, 1, <<>>))
     IN /\ lastErr' = WriteReturn(rms, exportErr)
        /\ extCalls' = WriteCalls(rms, exportErr)
        /\ contexts' = WriteContexts(rms, exportErr)
  /\ UNCHANGED <<config, conn, channels, metrics>>

(***************************************************************************)
(* The host assembling the argument of its next Write call.                *)
(***************************************************************************)
Gather(p) ==
  /\ metrics' = IF lastOp = "Gather" THEN Append(metrics, p) ELSE <<p>>
  /\ Len(metrics') <= MaxPoints
  /\ lastOp' = "Gather"
  /\ contexts' = <<>>
  /\ lastErr' = "nil"
  /\ extCalls' = <<>>
  /\ UNCHANGED <<config, conn, channels>>

GatherOneOfEach(s) ==
  /\ lastOp # "Gather"
  /\ metrics' = s
  /\ lastOp' = "Gather"
  /\ contexts' = <<>>
  /\ lastErr' = "nil"
  /\ extCalls' = <<>>
  /\ UNCHANGED <<config, conn, channels>>

GatherTagged(s) ==
  /\ lastOp # "Gather"
  /\ metrics' = s
  /\ lastOp' = "Gather"
  /\ contexts' = <<>>
  /\ lastErr' = "nil"
  /\ extCalls' = <<>>
  /\ UNCHANGED <<config, conn, channels>>

\* what the external calls of one Connect return; a call that an earlier
\* failure keeps Connect from making has a single, unused outcome
ConnectOutcomes ==
  {<<TRUE, "none", FALSE>>, <<FALSE, "error", FALSE>>}
    \cup ({FALSE} \X {"config", "none"} \X BOOLEAN)

Next ==
  \/ \E e \in ConnectOutcomes : Connect(e[1], e[2], e[3])
  \/ \E closeErr \in {"nil", "ErrClose"} : Close(closeErr)
  \/ \E exportErr \in {"nil", "ErrUnavailable", "DeadlineExceeded", "ErrClientConnClosing"} :
       Write(exportErr)
  \/ \E p \in Points : Gather(p)
  \/ \E s \in OneOfEachKind : GatherOneOfEach(s)
  \/ \E s \in TaggedSlices : GatherTagged(s)

Spec == Init /\ [][Next]_vars

SpecDefaults == InitDefaults /\ [][Next]_vars

SpecAttributes == InitAttributes /\ [][Next]_vars

TypeOK ==
  /\ lastOp \in {"None", "Gather", "Connect", "Close", "Write"}
  /\ grpcClientConn \in 0..Len(channels)
  /\ metricsServiceClient \in 0..Len(channels)
  /\ Len(channels) <= MaxDials

(***************************************************************************)
(* Properties.                                                             *)
(***************************************************************************)
\* a point the loop of Write can add to the batch
Convertible(m) == m.kind \in RecognizedKinds /\ m.addable

ConvertiblePositions == {i \in DOMAIN metrics : Convertible(metrics[i])}

ExportCalls == SelectSeq(extCalls, LAMBDA c : c.fn = "Export")

\* the positions in metrics of the points of every exported payload
ExportedPositions ==
  {i \in DOMAIN metrics :
     \E c \in Range(ExportCalls) : \E g \in Range(c.arg.payload) :
       \E pt \in Range(g.points) : pt.src = i}

\* C1: a Write call whose input holds no convertible point (unrecognized
\* kinds, rejected points, or no point at all) returns nil and makes no
\* export call
C1_EmptyBatchNoExport ==
  (lastOp = "Write" /\ ConvertiblePositions = {})
    => (lastErr = "nil" /\ ExportCalls = <<>>)

\* a Write over an unrecognized point and a rejected point has returned
C1_Witness ==
  /\ lastOp = "Write"
  /\ Len(metrics) = 2
  /\ \E i \in DOMAIN metrics : metrics[i].kind = UnknownKind
  /\ \E i \in DOMAIN metrics : metrics[i].kind \in RecognizedKinds /\ ~metrics[i].addable
  /\ channels[metricsServiceClient] = "open"
  /\ lastErr = "nil"

\* C2: a point that cannot be converted is dropped without ending the loop
\* or the call: every convertible point that comes after it is in the
\* exported payload, and Write returns what the export call returned, or nil
\* when nothing was exported
C2_DroppedPointNeverEscalates ==
  lastOp = "Write" =>
    /\ \A i \in ConvertiblePositions :
         (\E j \in 1..(i - 1) : ~Convertible(metrics[j])) => i \in ExportedPositions
    /\ \A i \in (DOMAIN metrics) \ ConvertiblePositions : i \notin ExportedPositions
    /\ IF ExportCalls = <<>> THEN lastErr = "nil"
       ELSE lastErr \in {c.err : c \in Range(ExportCalls)}

\* a Write whose first point was dropped has exported its second point
C2_Witness ==
  /\ lastOp = "Write"
  /\ Len(metrics) = 2
  /\ ~Convertible(metrics[1])
  /\ Convertible(metrics[2])
  /\ ExportedPositions = {2}
  /\ lastErr = "nil"

\* C3: a Write call with a non-empty batch makes exactly one export call
\* and returns the error of that call, nil when it succeeded
C3_OneExportErrorVerbatim ==
  (lastOp = "Write" /\ ConvertiblePositions # {})
    => (Len(ExportCalls) = 1 /\ lastErr = ExportCalls[1].err)

\* a Write whose export was rejected has returned
C3_Witness ==
  /\ lastOp = "Write"
  /\ ConvertiblePositions # {}
  /\ Len(ExportCalls) = 1
  /\ ExportCalls[1].err = "ErrUnavailable"
  /\ lastErr = "ErrUnavailable"

FatalCalls == {"NewLineProtocolToOtelMetrics", "TLSConfig", "Dial"}

\* C4: a Connect that fails returns the error of the external call that
\* failed and leaves the converter, the channel handle, the protocol client
\* and the call options (and the set of channels) as they were
C4_FailedConnectKeepsState ==
  [][(lastOp' = "Connect" /\ lastErr' # "nil") =>
       /\ extCalls' # <<>>
       /\ extCalls'[Len(extCalls')].fn \in FatalCalls
       /\ lastErr' = extCalls'[Len(extCalls')].err
       /\ \A k \in 1..(Len(extCalls') - 1) : extCalls'[k].err = "nil"
       /\ metricsConverter' = metricsConverter
       /\ grpcClientConn' = grpcClientConn
       /\ metricsServiceClient' = metricsServiceClient
       /\ callOptions' = callOptions
       /\ channels' = channels]_vars

\* a Connect on an uninitialized instance has failed in grpc.Dial
C4_Witness ==
  /\ lastOp = "Connect"
  /\ lastErr = "ErrDial"
  /\ metricsConverter = "nil"
  /\ grpcClientConn = Nil
  /\ metricsServiceClient = Nil
  /\ callOptions = <<>>
  /\ channels = <<>>

\* C5: a Close that finds a channel closes it, clears the handle whatever
\* the teardown returned, and returns what the teardown returned; a Close
\* that finds no channel tears nothing down and returns nil; after either,
\* the handle is clear, so that every further Close is of the second kind
C5_CloseIdempotent ==
  [][lastOp' = "Close" =>
       /\ grpcClientConn' = Nil
       /\ IF grpcClientConn # Nil
            THEN /\ Len(extCalls') = 1
                 /\ extCalls'[1].fn = "Close"
                 /\ extCalls'[1].arg = grpcClientConn
                 /\ lastErr' = extCalls'[1].err
                 /\ channels' = [channels EXCEPT ![grpcClientConn] = "closed"]
            ELSE /\ extCalls' = <<>>
                 /\ lastErr' = "nil"
                 /\ channels' = channels
       /\ UNCHANGED <<config, metricsConverter, metricsServiceClient, callOptions>>]_vars

\* a Close has found no channel on an instance whose channel was closed before
C5_Witness ==
  /\ lastOp = "Close"
  /\ extCalls = <<>>
  /\ lastErr = "nil"
  /\ grpcClientConn = Nil
  /\ channels = <<"closed">>

\* a first Close whose teardown failed has cleared the handle
C5_WitnessCloseError ==
  /\ lastOp = "Close"
  /\ lastErr = "ErrClose"
  /\ grpcClientConn = Nil
  /\ channels = <<"closed">>

\* C6 as stated: a Close that follows a failed Connect closes no channel,
\* returns nil and changes no state
C6_CloseAfterFailedConnectNoOp ==
  [][(lastOp = "Connect" /\ lastErr # "nil" /\ lastOp' = "Close") =>
       /\ extCalls' = <<>>
       /\ lastErr' = "nil"
       /\ UNCHANGED <<config, conn, channels>>]_vars

\* C6 amended: a Close that follows a failed Connect on an instance that
\* holds no channel (it never connected, or was closed) closes no channel,
\* returns nil and changes no state
C6_CloseAfterFailedConnectNoChannel ==
  [][(lastOp = "Connect" /\ lastErr # "nil" /\ grpcClientConn = Nil /\ lastOp' = "Close") =>
       /\ extCalls' = <<>>
       /\ lastErr' = "nil"
       /\ UNCHANGED <<config, conn, channels>>]_vars

\* a Close has followed the failed first Connect of an instance
C6_Witness ==
  /\ lastOp = "Close"
  /\ metricsConverter = "nil"
  /\ channels = <<>>
  /\ ServiceAddress = defaultServiceAddress
  /\ lastErr = "nil"
  /\ extCalls = <<>>

\* C7: a Write on an instance whose channel Close has torn down does not
\* open a channel and leaves the handle clear, and when it has a batch to
\* deliver it returns the closed channel's error at once
C7_WriteAfterCloseFailsFast ==
  [][(lastOp' = "Write" /\ grpcClientConn = Nil) =>
       /\ grpcClientConn' = Nil
       /\ channels' = channels
       /\ \A c \in Range(extCalls') : c.fn # "Dial"
       /\ channels[metricsServiceClient] = "closed"
       /\ ConvertiblePositions # {} =>
            /\ lastErr' = "ErrClientConnClosing"
            /\ \A c \in Range(extCalls') : c.err # "nil"]_vars

\* a Write with a batch to deliver has returned on a closed instance
C7_Witness ==
  /\ lastOp = "Write"
  /\ grpcClientConn = Nil
  /\ ConvertiblePositions # {}
  /\ Len(ExportCalls) = 1
  /\ lastErr = "ErrClientConnClosing"

\* C8: Connect dials with the TLS credential of the supplied configuration
\* when TLSConfig returns one, else with a default TLS credential when the
\* dialect is coralogix, else with the plaintext credential; a coralogix
\* connection is never dialled in plaintext, and an error of TLSConfig ends
\* Connect before any dial, whatever the dialect
C8_CredentialPriority ==
  lastOp = "Connect" =>
    \A k \in DOMAIN extCalls :
      /\ extCalls[k].fn = "TLSConfig" /\ extCalls[k].err # "nil" =>
           /\ lastErr = extCalls[k].err
           /\ \A c \in Range(extCalls) : c.fn # "Dial"
      /\ extCalls[k].fn = "Dial" =>
           /\ k > 1
           /\ extCalls[k - 1].fn = "TLSConfig"
           /\ extCalls[k - 1].arg = "config" => extCalls[k].arg.cred = "TLS(config)"
           /\ (extCalls[k - 1].arg # "config" /\ Dialect = "coralogix") =>
                extCalls[k].arg.cred = "TLS(default)"
           /\ (extCalls[k - 1].arg # "config" /\ Dialect # "coralogix") =>
                extCalls[k].arg.cred = "insecure"
           /\ Dialect = "coralogix" => extCalls[k].arg.cred # "insecure"

\* a coralogix instance without a TLS configuration has connected
C8_Witness ==
  /\ lastOp = "Connect"
  /\ lastErr = "nil"
  /\ Dialect = "coralogix"
  /\ Len(extCalls) = 3
  /\ extCalls[2].arg = "none"
  /\ extCalls[3].arg.cred = "TLS(default)"
  /\ grpcClientConn # Nil

VendorHeaderKeys == {"ApplicationName", "ApiName", "Authorization"}

\* C9: every Connect of a coralogix instance, also one that fails when the
\* credential is chosen or later, leaves ApplicationName = "app",
\* ApiName = "sub" and Authorization = "Bearer K" in the headers and every
\* other header as it was; a Connect of another dialect leaves the headers
\* as they were
C9_VendorHeaders ==
  [][lastOp' = "Connect" =>
       IF Dialect = "coralogix"
         THEN /\ DOMAIN Headers' = (DOMAIN Headers) \cup VendorHeaderKeys
              /\ Headers'["ApplicationName"] = "app"
              /\ Headers'["ApiName"] = "sub"
              /\ Headers'["Authorization"] = "Bearer K"
              /\ \A k \in (DOMAIN Headers) \ VendorHeaderKeys : Headers'[k] = Headers[k]
         ELSE Headers' = Headers]_vars

\* a coralogix instance configured with an Authorization header of its own
\* has failed to connect in TLSConfig
C9_Witness ==
  /\ lastOp = "Connect"
  /\ lastErr = "ErrTLS"
  /\ Dialect = "coralogix"
  /\ metricsConverter = "nil"
  /\ DOMAIN Headers = VendorHeaderKeys \cup {"X-Scope"}
  /\ Headers["Authorization"] = "Bearer K"
  /\ Headers["X-Scope"] = "tenant"

\* C10: every exported point carries the value type of its metric's kind
\* (Gauge to Gauge, Untyped to Untyped, Counter to Sum, Histogram to
\* Histogram, Summary to Summary), no point of another kind is exported,
\* and a Write over one convertible point of each recognized kind exports
\* five points
C10_KindMapping ==
  lastOp = "Write" =>
    /\ \A c \in Range(ExportCalls) : \A g \in Range(c.arg.payload) : \A pt \in Range(g.points) :
         /\ pt.src \in DOMAIN metrics
         /\ metrics[pt.src].kind = "Gauge" => pt.vType = "InfluxMetricValueTypeGauge"
         /\ metrics[pt.src].kind = "Untyped" => pt.vType = "InfluxMetricValueTypeUntyped"
         /\ metrics[pt.src].kind = "Counter" => pt.vType = "InfluxMetricValueTypeSum"
         /\ metrics[pt.src].kind = "Histogram" => pt.vType = "InfluxMetricValueTypeHistogram"
         /\ metrics[pt.src].kind = "Summary" => pt.vType = "InfluxMetricValueTypeSummary"
         /\ metrics[pt.src].kind \in RecognizedKinds
    /\ (/\ Len(metrics) = 5
        /\ \A i \in DOMAIN metrics : Convertible(metrics[i])
        /\ {metrics[i].kind : i \in DOMAIN metrics} = RecognizedKinds) =>
         /\ Len(ExportCalls) = 1
         /\ Len(ExportCalls[1].arg.payload) = 1
         /\ Len(ExportCalls[1].arg.payload[1].points) = 5
         /\ ExportedPositions = 1..5

\* a Write over one point of each recognized kind has exported five points
C10_Witness ==
  /\ lastOp = "Write"
  /\ Len(metrics) = 5
  /\ {metrics[i].kind : i \in DOMAIN metrics} = RecognizedKinds
  /\ Len(ExportCalls) = 1
  /\ {pt.vType : pt \in Range(ExportCalls[1].arg.payload[1].points)} =
       {"InfluxMetricValueTypeGauge", "InfluxMetricValueTypeUntyped",
        "InfluxMetricValueTypeSum", "InfluxMetricValueTypeHistogram",
        "InfluxMetricValueTypeSummary"}

\* C11: after the attribute loop of a Write with a non-empty attribute
\* mapping, every resource group of the exported payload holds, for every
\* configured key, the configured value whatever the group held under that
\* key before, and holds its other keys with the values its points came
\* with; with an empty mapping the groups are exported as they were built
C11_AttributeInjection ==
  lastOp = "Write" =>
    \A c \in Range(ExportCalls) : \A g \in Range(c.arg.payload) : \A pt \in Range(g.points) :
      LET prior == metrics[pt.src].resource
      IN /\ DOMAIN g.attributes = (DOMAIN prior) \cup (DOMAIN Attributes)
         /\ \A k \in DOMAIN Attributes : g.attributes[k] = Attributes[k]
         /\ \A k \in (DOMAIN prior) \ (DOMAIN Attributes) : g.attributes[k] = prior[k]
         /\ Attributes = EmptyMap => g.attributes = prior

\* a Write has exported two resource groups: the one that came with env =
\* "dev" now holds the configured env = "prod", the other one holds the
\* configured key next to its own host = "a"
C11_Witness ==
  /\ lastOp = "Write"
  /\ Attributes = [k \in {"env"} |-> "prod"]
  /\ Len(metrics) = 2
  /\ metrics[1].resource = [env |-> "dev"]
  /\ metrics[2].resource = [host |-> "a"]
  /\ Len(ExportCalls) = 1
  /\ Len(ExportCalls[1].arg.payload) = 2
  /\ ExportCalls[1].arg.payload[1].attributes = [env |-> "prod"]
  /\ ExportCalls[1].arg.payload[2].attributes = [host |-> "a", env |-> "prod"]

\* C12: every Write that reaches the export gives it a deadline of exactly
\* the configured timeout and changes neither the timeout, nor the
\* connection fields, nor the state of any channel; a Write that follows a
\* Write that ran out of time finds the channel open and sends the request
\* the timed-out call sent, under the full timeout again
C12_FreshDeadline ==
  [][lastOp' = "Write" =>
       /\ \A c \in Range(extCalls') : c.arg.timeout = Timeout /\ Timeout > 0
       /\ \A x \in Range(contexts') : x.timeout = Timeout
       /\ UNCHANGED <<Timeout, conn, channels>>
       /\ (lastOp = "Write" /\ lastErr = "DeadlineExceeded") =>
            /\ channels[metricsServiceClient] = "open"
            /\ Len(extCalls') = 1
            /\ extCalls'[1].arg = extCalls[1].arg
            /\ lastErr' \in {"nil", "ErrUnavailable", "DeadlineExceeded"}]_vars

\* a Write under a configured timeout of 10 seconds has run out of time:
\* the channel is open and stored
C12_Witness ==
  /\ lastOp = "Write"
  /\ lastErr = "DeadlineExceeded"
  /\ Timeout = 10
  /\ Len(ExportCalls) = 1
  /\ ExportCalls[1].arg.timeout = 10
  /\ grpcClientConn # Nil
  /\ channels[grpcClientConn] = "open"

\* C13: Connect replaces an empty endpoint by localhost:4317, a timeout of
\* zero or less by 5 seconds and an empty compression name by gzip, leaves
\* an endpoint, a timeout and a compression name that are set (the name
\* none included) as they are, and dials the effective endpoint
C13_ConnectDefaults ==
  [][lastOp' = "Connect" =>
       /\ ServiceAddress' = IF ServiceAddress = "" THEN "localhost:4317" ELSE ServiceAddress
       /\ Timeout' = IF Timeout <= 0 THEN 5 ELSE Timeout
       /\ Compression' = IF Compression = "" THEN "gzip" ELSE Compression
       /\ \A c \in Range(extCalls') : c.fn = "Dial" => c.arg.target = ServiceAddress']_vars

\* a Connect has dialled the default endpoint under the default timeout,
\* with the compression name none left as configured
C13_Witness ==
  /\ lastOp = "Connect"
  /\ lastErr = "nil"
  /\ ServiceAddress = "localhost:4317"
  /\ Timeout = 5
  /\ Compression = "none"
  /\ \E c \in Range(extCalls) : c.fn = "Dial" /\ c.arg.target = "localhost:4317"

\* the positions in metrics of the points of the payload rms, group after
\* group
RECURSIVE PayloadOrder(_, _)
PayloadOrder(rms, g) ==
  IF g > Len(rms) THEN <<>>
  ELSE [i \in 1..Len(rms[g].points) |-> rms[g].points[i].src] \o PayloadOrder(rms, g + 1)

\* C14: a Write makes at most one export call; the payload holds the
\* convertible points of this call's input, each once and no other point,
\* the points of a resource group in the order of the input and the groups
\* in the order of their first points
C14_InputOrderOneExport ==
  lastOp = "Write" =>
    /\ Len(extCalls) <= 1
    /\ \A c \in Range(ExportCalls) :
         LET order == PayloadOrder(c.arg.payload, 1)
         IN /\ Range(order) = ConvertiblePositions
            /\ Len(order) = Cardinality(ConvertiblePositions)
            /\ \A g \in Range(c.arg.payload) :
                 \A i, j \in DOMAIN g.points : i < j => g.points[i].src < g.points[j].src
            /\ \A g, h \in DOMAIN c.arg.payload :
                 g < h => c.arg.payload[g].points[1].src < c.arg.payload[h].points[1].src

\* a Write over a counter followed by a gauge has exported them in that
\* order in one call
C14_Witness ==
  /\ lastOp = "Write"
  /\ Len(metrics) = 2
  /\ metrics[1].kind = "Counter"
  /\ metrics[2].kind = "Gauge"
  /\ Len(extCalls) = 1
  /\ Len(ExportCalls) = 1
  /\ ExportCalls[1].arg.payload[1].points =
       <<[src |-> 1, vType |-> "InfluxMetricValueTypeSum"],
         [src |-> 2, vType |-> "InfluxMetricValueTypeGauge"]>>

\* C15: a Write leaves the channel handle, the service client, the
\* converter, the call options, the headers and the attributes as they
\* were, and a step that changes one of them is a Connect or a Close
C15_WriteFrame ==
  [][/\ lastOp' = "Write" =>
          UNCHANGED <<grpcClientConn, metricsServiceClient, metricsConverter,
                      callOptions, Headers, Attributes>>
     /\ <<grpcClientConn, metricsServiceClient, metricsConverter,
          callOptions, Headers, Attributes>>' #
        <<grpcClientConn, metricsServiceClient, metricsConverter,
          callOptions, Headers, Attributes>> =>
          lastOp' \in {"Connect", "Close"}]_vars

\* a Write whose export failed has returned with the handle, the client,
\* the converter and the call options of the connection still in place
C15_Witness ==
  /\ lastOp = "Write"
  /\ lastErr = "ErrUnavailable"
  /\ Len(ExportCalls) = 1
  /\ grpcClientConn # Nil
  /\ metricsServiceClient = grpcClientConn
  /\ metricsConverter # "nil"
  /\ callOptions # <<>>
  /\ Attributes = [k \in {"env"} |-> "prod"]

\* C16: every export call of a Write carries a compression call option,
\* naming the effective compression (gzip when none was configured), when
\* the effective compression name is not none, and carries no call option
\* when it is none
C16_CompressionOption ==
  lastOp = "Write" =>
    \A c \in Range(ExportCalls) :
      /\ Compression # ""
      /\ Compression # "none" =>
           /\ c.arg.opts # <<>>
           /\ \A o \in Range(c.arg.opts) : o = Compression
      /\ Compression = "none" => c.arg.opts = <<>>

\* an instance configured without endpoint, timeout and compression has
\* exported with the gzip call option
C16_Witness ==
  /\ lastOp = "Write"
  /\ ServiceAddress = "localhost:4317"
  /\ Timeout = 5
  /\ Compression = "gzip"
  /\ Len(ExportCalls) = 1
  /\ ExportCalls[1].arg.opts = <<"gzip">>

\* C17: every export call of a Write carries as outgoing metadata the
\* headers as Connect left them when there is at least one header, and no
\* metadata when there is none; under the vendor dialect the metadata
\* holds ApplicationName, ApiName and Authorization = "Bearer " + the
\* private key
C17_ExportMetadata ==
  lastOp = "Write" =>
    \A c \in Range(ExportCalls) :
      /\ c.arg.md = IF DOMAIN Headers # {} THEN <<Headers>> ELSE <<>>
      /\ Dialect = coralogixDialect =>
           /\ Len(c.arg.md) = 1
           /\ VendorHeaderKeys \subseteq DOMAIN c.arg.md[1]
           /\ c.arg.md[1]["ApplicationName"] = CoralogixConfig.AppName
           /\ c.arg.md[1]["ApiName"] = CoralogixConfig.SubSystem
           /\ c.arg.md[1]["Authorization"] = "Bearer " \o CoralogixConfig.PrivateKey

\* a Write under the vendor dialect has exported with the three vendor
\* headers and the configured X-Scope header as metadata
C17_Witness ==
  /\ lastOp = "Write"
  /\ Dialect = coralogixDialect
  /\ Len(ExportCalls) = 1
  /\ Len(ExportCalls[1].arg.md) = 1
  /\ DOMAIN ExportCalls[1].arg.md[1] = VendorHeaderKeys \cup {"X-Scope"}
  /\ ExportCalls[1].arg.md[1]["Authorization"] = "Bearer K"
  /\ ExportCalls[1].arg.md[1]["ApplicationName"] = "app"
  /\ ExportCalls[1].arg.md[1]["ApiName"] = "sub"
  /\ ExportCalls[1].arg.md[1]["X-Scope"] = "tenant"

\* C18: when a Write has returned, every timeout context it created is
\* released, whether the export succeeded or failed; it created one for
\* each export call and none when it returned before the export
C18_ContextReleased ==
  lastOp = "Write" =>
    /\ \A x \in Range(contexts) : x.cancelled
    /\ Len(contexts) = Len(ExportCalls)

\* a Write whose export ran out of time has returned with its one context
\* released
C18_Witness ==
  /\ lastOp = "Write"
  /\ lastErr = "DeadlineExceeded"
  /\ Len(contexts) = 1
  /\ contexts[1].cancelled
  /\ contexts[1].timeout = defaultTimeout

\* C19: the call options hold at most one compression option: one once
\* the instance is connected under a compression name other than none,
\* and none under the name none
C19_OneCompressionOption ==
  /\ Len(callOptions) <= 1
  /\ (metricsConverter # "nil" /\ Compression # "none") => Len(callOptions) = 1
  /\ Compression = "none" => callOptions = <<>>

\* C20: every open channel is the one the stored handle names, so that at
\* most one channel is open and none is open without a stored handle
C20_OpenChannelIsStored ==
  /\ \A h \in DOMAIN channels : channels[h] = "open" => grpcClientConn = h
  /\ Cardinality({h \in DOMAIN channels : channels[h] = "open"}) <= 1

=============================================================================
